---- MODULE Spec2Model ----
(***************************************************************************)
(* Survey draft builder of the survey back office (CreateSurveyPage.tsx).  *)
(* The state is the React state of the page; every event handler is one    *)
(* action.  A text is a sequence of characters.  A draft identifier is a   *)
(* natural number: uniqueId() yields a token that differs from every       *)
(* identifier alive in the draft, here the successor of the largest one.   *)
(*                                                                         *)
(* handleSubmit is asynchronous: it runs from the click to its first       *)
(* await, and then from the answer of one request to the next request.     *)
(* snapshot is the draft its closure reads, calls the requests it has      *)
(* issued, surveyRequests the number of survey requests the page has sent  *)
(* so far, and navigatedTo the survey whose page was opened.               *)
(***************************************************************************)
EXTENDS Integers, Sequences, FiniteSets, TLC

VARIABLES titulo, descricao, ativo, dataValidade, questions, error, success,
          selectedTemplate, isSaving, snapshot, calls, surveyRequests, navigatedTo,
          \* the survey detail page, and the options the backend holds
          survey, stored, optionForm, editingOption, savingOptionId, newOptionText,
          feedback, formError, toast, optionCalls,
          \* the session: localStorage, the default header, the redirect flag,
          \* the clock, and the calls of window.location.assign since a token
          \* was last set
          storedToken, authorization, hasRedirectedForAuth, now, loginNavigations

\* The state of the survey creation page.
pageVars == <<titulo, descricao, ativo, dataValidade, questions, error, success,
              selectedTemplate, isSaving, snapshot, calls, surveyRequests, navigatedTo>>

\* The state of the survey detail page.
detailVars == <<survey, stored, optionForm, editingOption, savingOptionId, newOptionText,
                feedback, formError, toast, optionCalls>>

\* The state of the session.
authVars == <<storedToken, authorization, hasRedirectedForAuth, now, loginNavigations>>

vars == <<pageVars, detailVars, authVars>>

(* ---------------------------------------------------------------- bounds *)

\* addQuestion is offered while the draft has fewer questions than this.
MaxQuestions == 2
\* addOption is offered while the question has fewer options than this.
MaxOptions == 6
\* Option requests of the detail page that may be unanswered at once.
MaxInFlight == 1
\* Calls of window.location.assign followed, and ticks of the clock.
MaxNavigations == 2
MaxClock == 1

(* The rows the user works on.  Identifiers are deterministic here: in a    *)
(* fresh or template draft the first question is 1 and its options are     *)
(* 2..6; 7 is the first option added to it, or else the second question.   *)
\* Questions whose text and option rows are edited.
EditedQuestionIds == {1}
\* Questions whose Remover button is pressed.
RemovedQuestionIds == {1, 7}
\* Options whose Remover button is pressed, and options whose checkbox and
\* text input are used, while the active-option cap is exercised (Spec) ...
RemovedOptionIds == {2, 3}
EditedOptionIds == {2, 7}
\* ... and while questions are cut down to their last option (TrimSpec).
TrimmedOptionIds == 2..6
TrimEditedOptionIds == {2}
\* Positions of the questions whose order input is used while the tree is edited.
OrderedQuestionIndexes == {1}

\* Texts typed into the question and option inputs.
Texts == {<< >>, <<"a">>}
\* Texts typed into the title and description inputs.
HeaderTexts == {<< >>, <<"t">>}
\* Values of the datetime-local input.
DateInputs == {<< >>, <<"2", "0", "3", "0">>}
\* Number(event.target.value) of the order input; 0 stands for the empty input.
OrderInputs == {-1, 0, 2}

\* The save button is followed until this many survey requests have been sent.
MaxSubmissions == 2
\* What is typed before a submission: a blank and a padded title; a text with
\* the position of the question it is typed into; a text with the positions
\* of the question and of the option it is typed into.
SubmittedTitles == {<<" ">>, <<" ", "t">>}
SubmittedQuestionTexts == {<<1, <<" ">> >>, <<1, <<"a", " ">> >>, <<2, <<"b">> >>}
SubmittedOptionTexts ==
  {<<1, 1, <<" ">> >>, <<1, 1, <<" ", "x">> >>, <<1, 2, <<"y">> >>, <<2, 1, <<"z", " ">> >>}
\* The ways a request fails: no connection, and an answer without a message.
Failures ==
  {[response |-> FALSE, code |-> "ERR_NETWORK", message |-> ""],
   [response |-> TRUE, code |-> "ERR_BAD_RESPONSE", message |-> ""]}

(* ------------------------------------------------------------- constants *)

MAX_ACTIVE_OPTIONS == 5

Undefined == "undefined"
ErrAddInactive == "Maximo de opcoes ativas por pergunta. A nova opcao foi criada como inativa."
ErrActivateDenied == "Maximo de opcoes ativas por pergunta. Desative uma opcao antes de ativar outra."
ErrTitle == "Informe um titulo para a pesquisa."
ErrQuestionText == "Todas as perguntas precisam de um texto."
ErrTooManyActive == "Cada pergunta pode ter no maximo 5 opcoes ativas."
SuccessMessage == "Pesquisa criada com sucesso."
ErrConnection == "Nao foi possivel conectar ao servidor. Verifique sua conexao e tente novamente."
ErrTimeout == "A requisicao demorou para responder. Tente novamente em instantes."
ErrProcessing == "Erro ao processar sua solicitacao. Tente novamente mais tarde."

\* null in a request payload.
Null == <<"null">>
\* The answer of a request that is still in flight, and of one that failed.
Pending == <<"pending", 0, 0>>
Rejected == <<"rejected", 0, 0>>
\* Characters removed by String.prototype.trim.
Whitespace == {" ", "\t", "\n"}

TEMPLATE_TITLE == <<"S", "a", "t">>
TEMPLATE_DESCRIPTION == <<"E", "s", "t", "a">>
TEMPLATE_OPTIONS ==
  << <<"N", "o", "v", "a">>, <<"P", "r", "e", "c", "o">>, <<"E", "c", "o">>,
     <<"F", "a", "m">>, <<"U", "l", "t", "r", "a">> >>
TEMPLATE_QUESTIONS ==
  << <<"Q", "a">>, <<"Q", "b">>, <<"Q", "c">>, <<"Q", "d">>, <<"Q", "e">>,
     <<"Q", "f">>, <<"Q", "g">>, <<"Q", "h">>, <<"Q", "i">>, <<"Q", "j">> >>

(* --------------------------------------------------------------- helpers *)

Max0(S) == IF S = {} THEN 0 ELSE CHOOSE m \in S : \A x \in S : x <= m

\* { ...record, ...updates }
Spread(record, updates) ==
  [f \in DOMAIN record |-> IF f \in DOMAIN updates THEN updates[f] ELSE record[f]]

\* Every identifier alive in a question list.
DraftIds(qs) ==
  {qs[i].id : i \in DOMAIN qs}
    \cup UNION {{qs[i].options[k].id : k \in DOMAIN qs[i].options} : i \in DOMAIN qs}

uniqueId(used) == Max0(used) + 1

createOptionDraft(optAtivo, id) == [id |-> id, texto |-> << >>, ativo |-> optAtivo]

\* Faulty variant: a new question with a single option slot.
createQuestionDraftSingleOption(ordem, used) ==
  LET qid == uniqueId(used)
  IN [id |-> qid, texto |-> << >>, ordem |-> ordem,
      options |-> << createOptionDraft(TRUE, uniqueId(used \cup {qid})) >>]

createQuestionDraft(ordem, used) ==
  LET qid == uniqueId(used)
      o1 == uniqueId(used \cup {qid})
      o2 == uniqueId(used \cup {qid, o1})
      o3 == uniqueId(used \cup {qid, o1, o2})
      o4 == uniqueId(used \cup {qid, o1, o2, o3})
      o5 == uniqueId(used \cup {qid, o1, o2, o3, o4})
  IN [id |-> qid, texto |-> << >>, ordem |-> ordem,
      options |-> << createOptionDraft(TRUE, o1), createOptionDraft(TRUE, o2),
                     createOptionDraft(TRUE, o3), createOptionDraft(TRUE, o4),
                     createOptionDraft(TRUE, o5) >>]

countActiveOptions(options) ==
  Cardinality({k \in DOMAIN options : options[k].ativo})

(* ------------------------------------------------- the state updaters    *)
(* Each operator is the function handed to setQuestions: prev -> next.     *)

\* Faulty variant: the order is the number of questions, not the position.
addQuestionUpdaterOrderFromZero(prev) ==
  Append(prev, createQuestionDraft(Len(prev), DraftIds(prev)))

addQuestionUpdater(prev) ==
  Append(prev, createQuestionDraft(Len(prev) + 1, DraftIds(prev)))

\* Faulty variant: the last question can be removed.
removeQuestionUpdaterUnguarded(prev, id) ==
  LET Keep(question) == question.id # id
  IN SelectSeq(prev, Keep)

removeQuestionUpdater(prev, id) ==
  LET Keep(question) == question.id # id
      filtered == SelectSeq(prev, Keep)
  IN IF Len(filtered) # 0 THEN filtered ELSE prev

\* Faulty variant: the update is applied to every question.
updateQuestionUpdaterAll(prev, id, updates) ==
  [i \in DOMAIN prev |-> Spread(prev[i], updates)]

updateQuestionUpdater(prev, id, updates) ==
  [i \in DOMAIN prev |-> IF prev[i].id = id THEN Spread(prev[i], updates) ELSE prev[i]]

\* reachedLimit of the question with this id, FALSE when there is none.
addOptionReachedLimit(prev, questionId) ==
  \E i \in DOMAIN prev :
    /\ prev[i].id = questionId
    /\ countActiveOptions(prev[i].options) >= MAX_ACTIVE_OPTIONS

\* Faulty variant: the limit is reached only above MAX_ACTIVE_OPTIONS.
addOptionToQuestionLateLimit(question, used) ==
  LET activeCount == countActiveOptions(question.options)
      reachedLimit == activeCount > MAX_ACTIVE_OPTIONS
      newOption == createOptionDraft(~reachedLimit, uniqueId(used))
  IN Spread(question, [options |-> Append(question.options, newOption)])

\* Faulty variant: the new option is always active.
addOptionToQuestionAlwaysActive(question, used) ==
  Spread(question,
         [options |-> Append(question.options, createOptionDraft(TRUE, uniqueId(used)))])

addOptionToQuestion(question, used) ==
  LET activeCount == countActiveOptions(question.options)
      reachedLimit == activeCount >= MAX_ACTIVE_OPTIONS
      newOption == createOptionDraft(~reachedLimit, uniqueId(used))
  IN Spread(question, [options |-> Append(question.options, newOption)])

addOptionUpdater(prev, questionId) ==
  [i \in DOMAIN prev |->
     IF prev[i].id # questionId THEN prev[i]
     ELSE addOptionToQuestion(prev[i], DraftIds(prev))]

\* Faulty variant: the last option can be removed.
removeOptionUpdaterUnguarded(prev, questionId, optionId) ==
  LET Keep(option) == option.id # optionId
  IN [i \in DOMAIN prev |->
        IF prev[i].id = questionId
        THEN Spread(prev[i], [options |-> SelectSeq(prev[i].options, Keep)])
        ELSE prev[i]]

\* Faulty variant: removal needs more than two options.
removeOptionUpdaterKeepsTwo(prev, questionId, optionId) ==
  LET Keep(option) == option.id # optionId
  IN [i \in DOMAIN prev |->
        IF prev[i].id = questionId
        THEN Spread(prev[i],
               [options |-> IF Len(prev[i].options) > 2
                            THEN SelectSeq(prev[i].options, Keep)
                            ELSE prev[i].options])
        ELSE prev[i]]

removeOptionUpdater(prev, questionId, optionId) ==
  LET Keep(option) == option.id # optionId
  IN [i \in DOMAIN prev |->
        IF prev[i].id = questionId
        THEN Spread(prev[i],
               [options |-> IF Len(prev[i].options) > 1
                            THEN SelectSeq(prev[i].options, Keep)
                            ELSE prev[i].options])
        ELSE prev[i]]

HasOption(question, optionId) ==
  \E k \in DOMAIN question.options : question.options[k].id = optionId

FindOption(question, optionId) ==
  question.options[CHOOSE k \in DOMAIN question.options :
                     /\ question.options[k].id = optionId
                     /\ \A j \in DOMAIN question.options :
                          question.options[j].id = optionId => k <= j]

\* Faulty variant: activation is denied only above MAX_ACTIVE_OPTIONS.
activationDeniedLateLimit(question, optionId, updates) ==
  /\ HasOption(question, optionId)
  /\ LET targetOption == FindOption(question, optionId)
         activeCount == countActiveOptions(question.options)
         willActivate == /\ "ativo" \in DOMAIN updates
                         /\ updates.ativo = TRUE
                         /\ ~targetOption.ativo
     IN willActivate /\ activeCount > MAX_ACTIVE_OPTIONS

\* Faulty variant: willActivate ignores whether the option is already active.
activationDeniedIgnoringTarget(question, optionId, updates) ==
  /\ HasOption(question, optionId)
  /\ LET activeCount == countActiveOptions(question.options)
         willActivate == "ativo" \in DOMAIN updates /\ updates.ativo = TRUE
     IN willActivate /\ activeCount >= MAX_ACTIVE_OPTIONS

\* willActivate && activeCount >= MAX_ACTIVE_OPTIONS
activationDenied(question, optionId, updates) ==
  /\ HasOption(question, optionId)
  /\ LET targetOption == FindOption(question, optionId)
         activeCount == countActiveOptions(question.options)
         willActivate == /\ "ativo" \in DOMAIN updates
                         /\ updates.ativo = TRUE
                         /\ ~targetOption.ativo
     IN willActivate /\ activeCount >= MAX_ACTIVE_OPTIONS

\* Faulty variant: at the limit every change of the active flag is refused.
updateOptionInQuestionFrozenAtLimit(question, optionId, updates) ==
  IF ~HasOption(question, optionId) THEN question
  ELSE IF /\ "ativo" \in DOMAIN updates
          /\ countActiveOptions(question.options) >= MAX_ACTIVE_OPTIONS
       THEN question
  ELSE Spread(question,
         [options |-> [k \in DOMAIN question.options |->
                         IF question.options[k].id = optionId
                         THEN Spread(question.options[k], updates)
                         ELSE question.options[k]]])

updateOptionInQuestion(question, optionId, updates) ==
  IF ~HasOption(question, optionId) THEN question
  ELSE IF activationDenied(question, optionId, updates) THEN question
  ELSE Spread(question,
         [options |-> [k \in DOMAIN question.options |->
                         IF question.options[k].id = optionId
                         THEN Spread(question.options[k], updates)
                         ELSE question.options[k]]])

updateOptionUpdater(prev, questionId, optionId, updates) ==
  [i \in DOMAIN prev |->
     IF prev[i].id # questionId THEN prev[i]
     ELSE updateOptionInQuestion(prev[i], optionId, updates)]

\* Faulty variant: a denied activation sets no message.
updateOptionDeniedSilent(prev, questionId, optionId, updates) == FALSE

\* setError inside updateOption's updater.
updateOptionDenied(prev, questionId, optionId, updates) ==
  \E i \in DOMAIN prev :
    /\ prev[i].id = questionId
    /\ activationDenied(prev[i], optionId, updates)

templateOption(k, id) == [id |-> id, texto |-> TEMPLATE_OPTIONS[k], ativo |-> TRUE]

\* Faulty variant: the order is the array index.
builtQuestionsZeroBased ==
  LET perQuestion == Len(TEMPLATE_OPTIONS) + 1
  IN [index \in DOMAIN TEMPLATE_QUESTIONS |->
        LET base == (index - 1) * perQuestion
        IN [id |-> base + 1,
            texto |-> TEMPLATE_QUESTIONS[index],
            ordem |-> index - 1,
            options |-> [k \in DOMAIN TEMPLATE_OPTIONS |-> templateOption(k, base + 1 + k)]]]

\* builtQuestions: identifiers are drawn question by question, the question's
\* own first, then one per option.
builtQuestions ==
  LET perQuestion == Len(TEMPLATE_OPTIONS) + 1
  IN [index \in DOMAIN TEMPLATE_QUESTIONS |->
        LET base == (index - 1) * perQuestion
        IN [id |-> base + 1,
            texto |-> TEMPLATE_QUESTIONS[index],
            ordem |-> index,
            options |-> [k \in DOMAIN TEMPLATE_OPTIONS |-> templateOption(k, base + 1 + k)]]]

(* ---------------------------------------------------------------- state  *)

\* What handleSubmit's closure holds while no submission is running.
NoSubmission ==
  [titulo |-> << >>, descricao |-> << >>, ativo |-> TRUE, dataValidade |-> << >>,
   questions |-> << >>]

\* No identifier: no survey page has been opened.
NoId == <<"none", 0, 0>>

\* The React state of the page as one record.
State ==
  [titulo |-> titulo, descricao |-> descricao, ativo |-> ativo,
   dataValidade |-> dataValidade, questions |-> questions, error |-> error,
   success |-> success, selectedTemplate |-> selectedTemplate,
   isSaving |-> isSaving, snapshot |-> snapshot, calls |-> calls,
   surveyRequests |-> surveyRequests, navigatedTo |-> navigatedTo]

\* The state after the setters called by a handler have been applied; once
\* the survey page has been opened the builder is unmounted.
Commit(next) ==
  /\ navigatedTo = NoId
  /\ \E rendered \in {next} :
       /\ titulo' = rendered.titulo
       /\ descricao' = rendered.descricao
       /\ ativo' = rendered.ativo
       /\ dataValidade' = rendered.dataValidade
       /\ questions' = rendered.questions
       /\ error' = rendered.error
       /\ success' = rendered.success
       /\ selectedTemplate' = rendered.selectedTemplate
       /\ isSaving' = rendered.isSaving
       /\ snapshot' = rendered.snapshot
       /\ calls' = rendered.calls
       /\ surveyRequests' = rendered.surveyRequests
       /\ navigatedTo' = rendered.navigatedTo
  /\ UNCHANGED <<detailVars, authVars>>

\* The questions of the survey the detail page shows.
DetailQuestionIds == {1}

\* useState<SurveyStructure>() before the structure has been loaded.
NoSurvey == [questions |-> << >>]

\* editingOption = null.
NoEditing == [id |-> 0, questionId |-> 0, texto |-> << >>, ativo |-> FALSE]

\* The survey as the backend holds it when the page is opened: one question,
\* four active options and an inactive one.
StoredAtFirst ==
  [questions |->
     << [id |-> 1,
         options |-> [k \in 1..MAX_ACTIVE_OPTIONS |->
                        [id |-> k, texto |-> <<"o">>, ativo |-> k < MAX_ACTIVE_OPTIONS]]] >>]

\* The detail page as constructed, before its first load.
InitialDetail ==
  [survey |-> NoSurvey, stored |-> StoredAtFirst,
   optionForm |-> [questionId |-> 0, texto |-> << >>, ativo |-> TRUE],
   editingOption |-> NoEditing, savingOptionId |-> 0,
   newOptionText |-> [q \in DetailQuestionIds |-> << >>],
   feedback |-> Undefined, formError |-> Undefined, toast |-> Undefined,
   optionCalls |-> << >>]

\* A token without an exp claim.
NoExp == 0

\* A token is known by its exp claim.
Token(exp) == <<"token", exp>>

\* No Authorization header.
NoHeader == <<"none", 0>>

\* The module as loaded with a token in localStorage that is still good.
InitialSession ==
  [storedToken |-> Token(1), authorization |-> <<"Bearer", 1>>,
   hasRedirectedForAuth |-> FALSE]

InitialState ==
  [titulo |-> << >>, descricao |-> << >>, ativo |-> TRUE, dataValidade |-> << >>,
   questions |-> << createQuestionDraft(1, {}) >>, error |-> Undefined,
   success |-> Undefined, selectedTemplate |-> "", isSaving |-> FALSE,
   snapshot |-> NoSubmission, calls |-> << >>,
   surveyRequests |-> 0,
   navigatedTo |-> NoId]

Init ==
  /\ titulo = InitialState.titulo
  /\ descricao = InitialState.descricao
  /\ ativo = InitialState.ativo
  /\ dataValidade = InitialState.dataValidade
  /\ questions = InitialState.questions
  /\ error = InitialState.error
  /\ success = InitialState.success
  /\ selectedTemplate = InitialState.selectedTemplate
  /\ isSaving = InitialState.isSaving
  /\ snapshot = InitialState.snapshot
  /\ calls = InitialState.calls
  /\ surveyRequests = InitialState.surveyRequests
  /\ navigatedTo = InitialState.navigatedTo
  /\ survey = InitialDetail.survey
  /\ stored = InitialDetail.stored
  /\ optionForm = InitialDetail.optionForm
  /\ editingOption = InitialDetail.editingOption
  /\ savingOptionId = InitialDetail.savingOptionId
  /\ newOptionText = InitialDetail.newOptionText
  /\ feedback = InitialDetail.feedback
  /\ formError = InitialDetail.formError
  /\ toast = InitialDetail.toast
  /\ optionCalls = InitialDetail.optionCalls
  /\ storedToken = InitialSession.storedToken
  /\ authorization = InitialSession.authorization
  /\ hasRedirectedForAuth = InitialSession.hasRedirectedForAuth
  /\ now = 0
  /\ loginNavigations = 0

(* ------------------------------------------------------------- handlers  *)
(* Each handler is a function from the state it is called in to the state  *)
(* it leaves: only the fields whose setter it calls change.                *)

addQuestionEffect(st) ==
  [st EXCEPT !.questions = addQuestionUpdater(st.questions)]

removeQuestionEffect(st, id) ==
  [st EXCEPT !.questions = removeQuestionUpdater(st.questions, id)]

updateQuestionEffect(st, id, updates) ==
  [st EXCEPT !.questions = updateQuestionUpdater(st.questions, id, updates)]

\* Number(event.target.value) || questionIndex + 1, questionIndex counted from 1
\* here.
orderOrDefault(value, questionIndex) == IF value # 0 THEN value ELSE questionIndex

addOptionEffect(st, questionId) ==
  [st EXCEPT !.questions = addOptionUpdater(st.questions, questionId),
             !.error = IF addOptionReachedLimit(st.questions, questionId)
                       THEN ErrAddInactive ELSE st.error]

removeOptionEffect(st, questionId, optionId) ==
  [st EXCEPT !.questions = removeOptionUpdater(st.questions, questionId, optionId)]

updateOptionEffect(st, questionId, optionId, updates) ==
  [st EXCEPT !.questions = updateOptionUpdater(st.questions, questionId, optionId, updates),
             !.error = IF updateOptionDenied(st.questions, questionId, optionId, updates)
                       THEN ErrActivateDenied ELSE st.error]

\* Faulty variant: the template also empties the expiry.
loadTemplateEffectClearingExpiry(st, value) ==
  IF value = "supermarkets"
  THEN [st EXCEPT !.selectedTemplate = value,
                  !.titulo = TEMPLATE_TITLE,
                  !.descricao = TEMPLATE_DESCRIPTION,
                  !.ativo = TRUE,
                  !.dataValidade = << >>,
                  !.questions = builtQuestions,
                  !.error = Undefined,
                  !.success = Undefined]
  ELSE [st EXCEPT !.selectedTemplate = value]

loadTemplateEffect(st, value) ==
  IF value = "supermarkets"
  THEN [st EXCEPT !.selectedTemplate = value,
                  !.titulo = TEMPLATE_TITLE,
                  !.descricao = TEMPLATE_DESCRIPTION,
                  !.ativo = TRUE,
                  !.questions = builtQuestions,
                  !.error = Undefined,
                  !.success = Undefined]
  ELSE [st EXCEPT !.selectedTemplate = value]

\* Faulty variant: Limpar also gives up the submission in flight.
resetEffectCancelling(st) ==
  [st EXCEPT !.titulo = << >>,
             !.descricao = << >>,
             !.ativo = TRUE,
             !.dataValidade = << >>,
             !.questions = << createQuestionDraft(1, {}) >>,
             !.selectedTemplate = "",
             !.error = Undefined,
             !.success = Undefined,
             !.isSaving = FALSE,
             !.snapshot = [titulo |-> << >>, descricao |-> << >>, ativo |-> TRUE,
                           dataValidade |-> << >>, questions |-> << >>],
             !.calls = << >>]

resetEffect(st) ==
  [st EXCEPT !.titulo = << >>,
             !.descricao = << >>,
             !.ativo = TRUE,
             !.dataValidade = << >>,
             !.questions = << createQuestionDraft(1, {}) >>,
             !.selectedTemplate = "",
             !.error = Undefined,
             !.success = Undefined]

(* ------------------------------------------------------------ submission *)

\* String.prototype.trim
Trim(text) ==
  LET kept == {i \in DOMAIN text : text[i] \notin Whitespace}
  IN IF kept = {} THEN << >>
     ELSE SubSeq(text, CHOOSE i \in kept : \A j \in kept : i <= j, Max0(kept))

\* new Date(value).toISOString(): the local date-time written as a UTC instant.
toISOString(value) == value \o <<"Z">>

\* parseApiError of a rejected request: a backend message wins, then the
\* missing response (timeout or no connection), then the fallback.
parseApiError(err) ==
  IF err.message # "" THEN err.message
  ELSE IF ~err.response THEN (IF err.code = "ECONNABORTED" THEN ErrTimeout ELSE ErrConnection)
  ELSE ErrProcessing

\* Faulty variant: the question texts are not trimmed.
validationErrorUntrimmed(st) ==
  IF Trim(st.titulo) = << >> THEN ErrTitle
  ELSE IF ~(\A i \in DOMAIN st.questions : st.questions[i].texto # << >>)
       THEN ErrQuestionText
  ELSE IF \E i \in DOMAIN st.questions :
            countActiveOptions(st.questions[i].options) > MAX_ACTIVE_OPTIONS
       THEN ErrTooManyActive
  ELSE Undefined

\* Faulty variant: the question texts are looked at before the title.
validationErrorQuestionsFirst(st) ==
  IF ~(\A i \in DOMAIN st.questions : Trim(st.questions[i].texto) # << >>)
  THEN ErrQuestionText
  ELSE IF Trim(st.titulo) = << >> THEN ErrTitle
  ELSE IF \E i \in DOMAIN st.questions :
            countActiveOptions(st.questions[i].options) > MAX_ACTIVE_OPTIONS
       THEN ErrTooManyActive
  ELSE Undefined

\* The message of the first validation rule the draft breaks, Undefined when
\* it breaks none.
validationError(st) ==
  IF Trim(st.titulo) = << >> THEN ErrTitle
  ELSE IF ~(\A i \in DOMAIN st.questions : Trim(st.questions[i].texto) # << >>)
       THEN ErrQuestionText
  ELSE IF \E i \in DOMAIN st.questions :
            countActiveOptions(st.questions[i].options) > MAX_ACTIVE_OPTIONS
       THEN ErrTooManyActive
  ELSE Undefined

\* The state values the running handleSubmit reads: those of the render in
\* which the button was clicked.
closure(st) ==
  [titulo |-> st.titulo, descricao |-> st.descricao, ativo |-> st.ativo,
   dataValidade |-> st.dataValidade, questions |-> st.questions]

\* The request goes out; its answer is awaited.  q and o are the positions of
\* the question and the option the loops are at (0 outside the loop).
issueCall(st, kind, payload, q, o) ==
  [st EXCEPT !.calls = Append(@, [kind |-> kind, payload |-> payload, q |-> q, o |-> o,
                                   response |-> Pending]),
             !.surveyRequests = IF kind = "survey" THEN @ + 1 ELSE @]

\* createdSurvey and createdQuestion as far as the handler has got.
createdSurvey(st) == st.calls[1].response

\* Faulty variant: the first question created stands for every question.
createdQuestionFirst(st) ==
  LET asked == {n \in DOMAIN st.calls : st.calls[n].kind = "question"}
  IN st.calls[CHOOSE n \in asked : \A m \in asked : n <= m].response

createdQuestion(st) ==
  LET asked == {n \in DOMAIN st.calls : st.calls[n].kind = "question"}
  IN st.calls[Max0(asked)].response

surveyPayload(st) ==
  [titulo |-> Trim(st.snapshot.titulo),
   descricao |-> IF Trim(st.snapshot.descricao) # << >> THEN Trim(st.snapshot.descricao) ELSE Null,
   ativo |-> st.snapshot.ativo,
   dataValidade |-> IF st.snapshot.dataValidade # << >>
                    THEN toISOString(st.snapshot.dataValidade) ELSE Null]

\* Faulty variant: the question is read from the page as it is now.
questionPayloadLive(st, q) ==
  LET question == IF q \in DOMAIN st.questions THEN st.questions[q]
                  ELSE st.snapshot.questions[q]
  IN [texto |-> Trim(question.texto), ordem |-> question.ordem, surveyId |-> createdSurvey(st)]

questionPayload(st, q) ==
  [texto |-> Trim(st.snapshot.questions[q].texto),
   ordem |-> st.snapshot.questions[q].ordem,
   surveyId |-> createdSurvey(st)]

optionPayload(st, q, o) ==
  [texto |-> Trim(st.snapshot.questions[q].options[o].texto),
   ativo |-> st.snapshot.questions[q].options[o].ativo,
   questionId |-> createdQuestion(st)]

\* After the loops: setSuccess, navigate, and the finally block.
finishSuccess(st) ==
  [st EXCEPT !.success = SuccessMessage,
             !.navigatedTo = createdSurvey(st),
             !.isSaving = FALSE]

\* The outer loop arrives at question q.
questionLoop(st, q) ==
  IF q > Len(st.snapshot.questions) THEN finishSuccess(st)
  ELSE issueCall(st, "question", questionPayload(st, q), q, 0)

\* Faulty variant: only options with no text at all are passed over.
optionLoopUntrimmed(st, q, from) ==
  LET options == st.snapshot.questions[q].options
      sent == {o \in from..Len(options) : options[o].texto # << >>}
  IN IF sent = {} THEN questionLoop(st, q + 1)
     ELSE LET o == CHOOSE k \in sent : \A j \in sent : k <= j
          IN issueCall(st, "option", optionPayload(st, q, o), q, o)

\* The inner loop of question q arrives at option from: options with an empty
\* trimmed text are passed over.
optionLoop(st, q, from) ==
  LET options == st.snapshot.questions[q].options
      sent == {o \in from..Len(options) : Trim(options[o].texto) # << >>}
  IN IF sent = {} THEN questionLoop(st, q + 1)
     ELSE LET o == CHOOSE k \in sent : \A j \in sent : k <= j
          IN issueCall(st, "option", optionPayload(st, q, o), q, o)

\* Faulty variant: after an earlier attempt the survey is not created again.
handleSubmitEffectResuming(st) ==
  LET cleared == [st EXCEPT !.error = Undefined, !.success = Undefined]
      started == [cleared EXCEPT !.isSaving = TRUE, !.snapshot = closure(st), !.calls = << >>]
  IN IF validationError(st) # Undefined
     THEN [cleared EXCEPT !.error = validationError(st)]
     ELSE IF st.surveyRequests > 0
     THEN issueCall(started, "question",
                    [texto |-> Trim(st.questions[1].texto), ordem |-> st.questions[1].ordem,
                     surveyId |-> <<"survey", st.surveyRequests, 0>>], 1, 0)
     ELSE issueCall(started, "survey", surveyPayload(started), 0, 0)

\* The click on the save button, up to the first await or an early return.
handleSubmitEffect(st) ==
  LET cleared == [st EXCEPT !.error = Undefined, !.success = Undefined]
  IN IF validationError(st) # Undefined
     THEN [cleared EXCEPT !.error = validationError(st)]
     ELSE issueCall([cleared EXCEPT !.isSaving = TRUE, !.snapshot = closure(st),
                                    !.calls = << >>],
                    "survey", surveyPayload([st EXCEPT !.snapshot = closure(st)]), 0, 0)

\* The identifier the backend gives the entity a request creates: its kind,
\* the survey request it came with and its place under that survey, which no
\* other request of the page shares.
createdId(st, call) == <<call.kind, st.surveyRequests, call.q * (MaxOptions + 1) + call.o>>

\* Faulty variant: success is signalled once the survey exists.
requestResolvedEffectEarlySuccess(st) ==
  LET n == Len(st.calls)
      last == st.calls[n]
      answered == [st EXCEPT !.calls[n].response = createdId(st, last)]
  IN finishSuccess(answered)

\* Faulty variant: the questions are taken from the last one.
requestResolvedEffectLastQuestionFirst(st) ==
  LET n == Len(st.calls)
      last == st.calls[n]
      answered == [st EXCEPT !.calls[n].response = createdId(st, last)]
  IN IF last.kind = "survey" THEN questionLoop(answered, Len(st.snapshot.questions))
     ELSE IF last.kind = "question" THEN optionLoop(answered, last.q, 1)
     ELSE optionLoop(answered, last.q, last.o + 1)

\* The request in flight is answered with the created entity; handleSubmit
\* runs on to its next await or to its end.
requestResolvedEffect(st) ==
  LET n == Len(st.calls)
      last == st.calls[n]
      answered == [st EXCEPT !.calls[n].response = createdId(st, last)]
  IN IF last.kind = "survey" THEN questionLoop(answered, 1)
     ELSE IF last.kind = "question" THEN optionLoop(answered, last.q, 1)
     ELSE optionLoop(answered, last.q, last.o + 1)

\* Faulty variant: the rejected request is sent again.
catchFinallyRetrying(st, err) ==
  LET last == st.calls[Len(st.calls)]
  IN issueCall([st EXCEPT !.calls[Len(st.calls)].response = Rejected,
                          !.error = parseApiError(err)],
               last.kind, last.payload, last.q, last.o)

\* Faulty variant: the form is emptied after a failure.
catchFinallyClearingDraft(st, err) ==
  [st EXCEPT !.calls[Len(st.calls)].response = Rejected,
             !.error = parseApiError(err),
             !.isSaving = FALSE,
             !.titulo = << >>,
             !.questions = << createQuestionDraft(1, {}) >>]

\* Faulty variant: no finally block.
catchFinallyStillSaving(st, err) ==
  [st EXCEPT !.calls[Len(st.calls)].response = Rejected,
             !.error = parseApiError(err)]

\* The request in flight is rejected: the catch and finally blocks.
catchFinally(st, err) ==
  [st EXCEPT !.calls[Len(st.calls)].response = Rejected,
             !.error = parseApiError(err),
             !.isSaving = FALSE]

\* handleSubmit has returned after a failure: what its closure held is gone.
handlerReturned(st) == [st EXCEPT !.snapshot = NoSubmission, !.calls = << >>]

requestRejectedEffect(st, err) == handlerReturned(catchFinally(st, err))

(* --------------------------------------------------------------- actions *)

handleAddQuestion ==
  /\ Len(questions) < MaxQuestions
  /\ Commit(addQuestionEffect(State))

handleRemoveQuestion(id) == Commit(removeQuestionEffect(State, id))

updateQuestion(id, updates) == Commit(updateQuestionEffect(State, id, updates))

setQuestionText(id, texto) == updateQuestion(id, [texto |-> texto])

\* The order input of the question rendered at questionIndex.
setQuestionOrder(questionIndex, value) ==
  /\ questionIndex \in DOMAIN questions
  /\ updateQuestion(questions[questionIndex].id,
                    [ordem |-> orderOrDefault(value, questionIndex)])

handleAddOption(questionId) ==
  /\ \A i \in DOMAIN questions :
       questions[i].id = questionId => Len(questions[i].options) < MaxOptions
  /\ Commit(addOptionEffect(State, questionId))

handleRemoveOption(questionId, optionId) ==
  Commit(removeOptionEffect(State, questionId, optionId))

updateOption(questionId, optionId, updates) ==
  Commit(updateOptionEffect(State, questionId, optionId, updates))

setOptionText(questionId, optionId, texto) ==
  updateOption(questionId, optionId, [texto |-> texto])

setOptionActive(questionId, optionId, checked) ==
  updateOption(questionId, optionId, [ativo |-> checked])

loadTemplate(value) == Commit(loadTemplateEffect(State, value))

reset == Commit(resetEffect(State))

setTitulo(value) == Commit([State EXCEPT !.titulo = value])

setDescricao(value) == Commit([State EXCEPT !.descricao = value])

setDataValidade(value) == Commit([State EXCEPT !.dataValidade = value])

setAtivo(checked) == Commit([State EXCEPT !.ativo = checked])

\* Faulty variant: the save button is never disabled.
saveNeverDisabled(st) == FALSE

\* disabled={isSaving} of the save button.
saveDisabled(st) == st.isSaving

\* A request has been sent and not yet answered.
requestInFlight(st) ==
  st.calls # << >> /\ st.calls[Len(st.calls)].response = Pending

handleSubmit ==
  /\ ~saveDisabled(State)
  /\ surveyRequests < MaxSubmissions
  /\ Commit(handleSubmitEffect(State))

requestResolved ==
  /\ requestInFlight(State)
  /\ Commit(requestResolvedEffect(State))

requestRejected(err) ==
  /\ requestInFlight(State)
  /\ Commit(requestRejectedEffect(State, err))

Next ==
  \/ handleAddQuestion
  \/ \E id \in RemovedQuestionIds : handleRemoveQuestion(id)
  \/ \E id \in EditedQuestionIds, t \in Texts : setQuestionText(id, t)
  \/ \E i \in OrderedQuestionIndexes, v \in OrderInputs : setQuestionOrder(i, v)
  \/ \E q \in EditedQuestionIds : handleAddOption(q)
  \/ \E q \in EditedQuestionIds, o \in RemovedOptionIds : handleRemoveOption(q, o)
  \/ \E q \in EditedQuestionIds, o \in EditedOptionIds, t \in Texts : setOptionText(q, o, t)
  \/ \E q \in EditedQuestionIds, o \in EditedOptionIds, b \in BOOLEAN : setOptionActive(q, o, b)
  \/ \E v \in {"", "supermarkets"} : loadTemplate(v)
  \/ reset

\* Editing the question tree around the active-option cap.
Spec == Init /\ [][Next]_vars

TrimNext ==
  \/ handleAddQuestion
  \/ \E id \in RemovedQuestionIds : handleRemoveQuestion(id)
  \/ \E id \in EditedQuestionIds : setQuestionText(id, <<"a">>)
  \/ \E i \in OrderedQuestionIndexes : setQuestionOrder(i, 0)
  \/ \E q \in EditedQuestionIds : handleAddOption(q)
  \/ \E q \in EditedQuestionIds, o \in TrimmedOptionIds : handleRemoveOption(q, o)
  \/ \E q \in EditedQuestionIds, o \in TrimEditedOptionIds : setOptionText(q, o, <<"a">>)
  \/ \E q \in EditedQuestionIds, o \in TrimEditedOptionIds, b \in BOOLEAN : setOptionActive(q, o, b)
  \/ loadTemplate("supermarkets")
  \/ reset

\* Editing the question tree down to the last option and the last question.
TrimSpec == Init /\ [][TrimNext]_vars

FormNext ==
  \/ \E v \in HeaderTexts : setTitulo(v)
  \/ \E v \in HeaderTexts : setDescricao(v)
  \/ \E v \in DateInputs : setDataValidade(v)
  \/ \E b \in BOOLEAN : setAtivo(b)
  \/ handleAddQuestion
  \/ \E id \in RemovedQuestionIds : handleRemoveQuestion(id)
  \/ \E id \in EditedQuestionIds, t \in Texts : setQuestionText(id, t)
  \/ \E i \in 1..MaxQuestions, v \in OrderInputs : setQuestionOrder(i, v)
  \/ \E q \in EditedQuestionIds : handleAddOption(q)
  \/ \E q \in EditedQuestionIds, t \in Texts : setOptionText(q, 7, t)
  \/ \E q \in EditedQuestionIds, b \in BOOLEAN : setOptionActive(q, 7, b)
  \/ \E v \in {"", "supermarkets"} : loadTemplate(v)
  \/ reset

\* Filling in the whole form: the header fields and the question tree.
FormSpec == Init /\ [][FormNext]_vars

\* The draft is filled in between submissions; while a submission is in
\* flight the user is followed changing the title, adding an option to the
\* first question and pressing Limpar.
SubmitNext ==
  \/ \E v \in SubmittedTitles : setTitulo(v)
  \/ ~isSaving /\ handleAddQuestion
  \/ ~isSaving /\ \E typed \in SubmittedQuestionTexts :
                     /\ typed[1] \in DOMAIN questions
                     /\ setQuestionText(questions[typed[1]].id, typed[2])
  \/ \E q \in EditedQuestionIds : handleAddOption(q)
  \/ ~isSaving /\ \E typed \in SubmittedOptionTexts :
                     /\ typed[1] \in DOMAIN questions
                     /\ setOptionText(questions[typed[1]].id,
                                      questions[typed[1]].options[typed[2]].id, typed[3])
  \/ ~isSaving /\ \E q \in EditedQuestionIds, b \in BOOLEAN : setOptionActive(q, 3, b)
  \/ reset
  \/ handleSubmit
  \/ requestResolved
  \/ \E err \in Failures : requestRejected(err)

\* Filling in a draft and saving it, with requests that succeed or fail.
SubmitSpec == Init /\ [][SubmitNext]_vars

\* The draft is filled in and saved, and while the requests are in flight the
\* title is changed, an option added and Limpar pressed.
EditAndSave ==
  \/ \E v \in SubmittedTitles : setTitulo(v)
  \/ ~isSaving /\ handleAddQuestion
  \/ ~isSaving /\ \E typed \in SubmittedQuestionTexts :
                     /\ typed[1] \in DOMAIN questions
                     /\ setQuestionText(questions[typed[1]].id, typed[2])
  \/ \E q \in EditedQuestionIds : handleAddOption(q)
  \/ ~isSaving /\ \E typed \in SubmittedOptionTexts :
                     /\ typed[1] \in DOMAIN questions
                     /\ setOptionText(questions[typed[1]].id,
                                      questions[typed[1]].options[typed[2]].id, typed[3])
  \/ reset
  \/ handleSubmit

SucceedingNext ==
  \/ EditAndSave
  \/ isSaving /\ loadTemplate("supermarkets")
  \/ requestResolved

\* Every request is answered, and answered with the created entity; the
\* template is loaded while requests are in flight.
SucceedingSpec == Init /\ [][SucceedingNext]_vars /\ WF_vars(requestResolved)

AnsweringNext ==
  \/ EditAndSave
  \/ requestResolved
  \/ \E err \in Failures : requestRejected(err)

\* Every request is answered, with the created entity or with a failure.
AnsweringSpec ==
  /\ Init /\ [][AnsweringNext]_vars
  /\ WF_vars(requestResolved \/ \E err \in Failures : requestRejected(err))

(* ------------------------------------------------------------ properties *)
(* A property of a handler is stated of the handler's effect on every       *)
(* reachable state, so that a call that changes nothing is covered too.    *)

\* The draft: what a submission would send.
DraftOf(st) == <<st.titulo, st.descricao, st.ativo, st.dataValidade, st.questions>>

NumberActive(options) == Cardinality({k \in DOMAIN options : options[k].ativo = TRUE})

ActiveFlags(qs) == [i \in DOMAIN qs |-> [k \in DOMAIN qs[i].options |-> qs[i].options[k].ativo]]

QuestionIdsOf(qs) == {qs[i].id : i \in DOMAIN qs}

OptionIdsOf(options) == {options[k].id : k \in DOMAIN options}

\* The positions of the questions (options) carrying an identifier.
QuestionsWithId(qs, id) == {i \in DOMAIN qs : qs[i].id = id}

OptionsWithId(options, id) == {k \in DOMAIN options : options[k].id = id}

\* s without its element at position i.
WithoutAt(s, i) == SubSeq(s, 1, i - 1) \o SubSeq(s, i + 1, Len(s))

\* C1: in every reachable state every question has at most MAX_ACTIVE_OPTIONS
\* (5) options with ativo = TRUE.
C1_ActiveOptionCap ==
  \A i \in DOMAIN questions : NumberActive(questions[i].options) <= 5

\* A question at the cap that was given one more option, created inactive.
C1_Witness ==
  /\ error = ErrAddInactive
  /\ \E i \in DOMAIN questions :
       /\ NumberActive(questions[i].options) = 5
       /\ Len(questions[i].options) = 6

\* C2: in every reachable state the survey has at least one question and every
\* question has at least one option.
C2_MinimumCardinality ==
  /\ Len(questions) >= 1
  /\ \A i \in DOMAIN questions : Len(questions[i].options) >= 1

\* A draft cut down to one question with one option.
C2_Witness ==
  /\ Len(questions) = 1
  /\ Len(questions[1].options) = 1

\* C3: addOption(q) appends exactly one option with empty text at the end of
\* q's options; with 5 active options in q the new option is inactive and the
\* warning is set, otherwise it is active and the error message is untouched.
C3_AddOption ==
  \A i \in DOMAIN questions :
    LET next == addOptionEffect(State, questions[i].id)
        before == questions[i].options
        after == next.questions[i].options
    IN /\ Len(after) = Len(before) + 1
       /\ SubSeq(after, 1, Len(before)) = before
       /\ after[Len(after)].texto = << >>
       /\ IF NumberActive(before) = 5
          THEN after[Len(after)].ativo = FALSE /\ next.error = ErrAddInactive
          ELSE after[Len(after)].ativo = TRUE /\ next.error = error

\* Both cases have happened to question 1: a sixth option created inactive
\* with the warning, and later an option appended active below the cap.
C3_Witness ==
  /\ error = ErrAddInactive
  /\ \E i \in DOMAIN questions :
       LET options == questions[i].options
       IN /\ questions[i].id = 1
          /\ Len(options) = 6
          /\ options[5].id = 7 /\ options[5].ativo = FALSE /\ options[5].texto = << >>
          /\ options[6].id = 8 /\ options[6].ativo = TRUE /\ options[6].texto = << >>

\* C4: setOptionActive(q, o, true) on an inactive option o: with 5 active
\* options in q the whole draft is left unchanged and the warning is set; with
\* fewer than 5 the option becomes active.
C4_Activate ==
  \A i \in DOMAIN questions : \A k \in DOMAIN questions[i].options :
    questions[i].options[k].ativo = FALSE =>
      LET next == updateOptionEffect(State, questions[i].id, questions[i].options[k].id,
                                     [ativo |-> TRUE])
      IN IF NumberActive(questions[i].options) = 5
         THEN DraftOf(next) = DraftOf(State) /\ next.error = ErrActivateDenied
         ELSE next.questions[i].options[k].ativo = TRUE

\* Option 7 was denied activation at the cap and, after an option was removed,
\* activated.
C4_Witness ==
  /\ error = ErrActivateDenied
  /\ \E i \in DOMAIN questions :
       /\ questions[i].id = 1
       /\ \E k \in DOMAIN questions[i].options :
            questions[i].options[k].id = 7 /\ questions[i].options[k].ativo = TRUE

\* C5 as stated: for any option o of a question q with exactly 5 active
\* options, setOptionActive(q, o, true) changes no active flag and yields the
\* warning.
C5_Original ==
  \A i \in DOMAIN questions : \A k \in DOMAIN questions[i].options :
    NumberActive(questions[i].options) = 5 =>
      LET next == updateOptionEffect(State, questions[i].id, questions[i].options[k].id,
                                     [ativo |-> TRUE])
      IN /\ ActiveFlags(next.questions) = ActiveFlags(questions)
         /\ next.error = ErrActivateDenied

\* C5 (amended): for any option o of a question q with exactly 5 active
\* options, setOptionActive(q, o, true) changes no active flag; it yields the
\* warning when o is inactive and leaves the error message as it was when o is
\* already active.
C5_ActivateAtCap ==
  \A i \in DOMAIN questions : \A k \in DOMAIN questions[i].options :
    NumberActive(questions[i].options) = 5 =>
      LET next == updateOptionEffect(State, questions[i].id, questions[i].options[k].id,
                                     [ativo |-> TRUE])
      IN /\ ActiveFlags(next.questions) = ActiveFlags(questions)
         /\ next.error = IF questions[i].options[k].ativo = FALSE
                         THEN ErrActivateDenied ELSE error

\* A question at the cap holding both kinds of option, after a denied
\* activation of the inactive one.
C5_Witness ==
  /\ error = ErrActivateDenied
  /\ \E i \in DOMAIN questions :
       /\ NumberActive(questions[i].options) = 5
       /\ \E k \in DOMAIN questions[i].options :
            questions[i].options[k].id = 7 /\ questions[i].options[k].ativo = FALSE

\* C6: setOptionActive(q, o, false) on an existing option o of q leaves o
\* inactive, does not touch the error message and does not raise q's number of
\* active options.
C6_Deactivate ==
  \A i \in DOMAIN questions : \A k \in DOMAIN questions[i].options :
    LET next == updateOptionEffect(State, questions[i].id, questions[i].options[k].id,
                                   [ativo |-> FALSE])
    IN /\ next.questions[i].options[k].ativo = FALSE
       /\ next.error = error
       /\ NumberActive(next.questions[i].options) <= NumberActive(questions[i].options)

\* Option 7 was created active (no warning was ever set) and then deactivated.
C6_Witness ==
  /\ error = Undefined
  /\ \E i \in DOMAIN questions :
       /\ questions[i].id = 1
       /\ \E k \in DOMAIN questions[i].options :
            questions[i].options[k].id = 7 /\ questions[i].options[k].ativo = FALSE

\* C7: addQuestion appends one question with empty text, five options all
\* active and order = number of questions before + 1; the existing questions
\* and the error message are unchanged.
C7_AddQuestion ==
  LET next == addQuestionEffect(State)
      n == Len(questions)
      new == next.questions[n + 1]
  IN /\ Len(next.questions) = n + 1
     /\ SubSeq(next.questions, 1, n) = questions
     /\ new.texto = << >>
     /\ new.ordem = n + 1
     /\ Len(new.options) = 5
     /\ \A k \in DOMAIN new.options : new.options[k].ativo = TRUE
     /\ next.error = error

\* A second question appended to an edited first one.
C7_Witness ==
  /\ Len(questions) = 2
  /\ questions[1].texto = <<"a">>
  /\ Len(questions[1].options) = 6
  /\ questions[2].texto = << >>
  /\ questions[2].ordem = 2
  /\ NumberActive(questions[2].options) = 5

\* C8: removeQuestion(id) leaves a one-question draft unchanged; with two or
\* more questions it removes exactly the question with that id, the others
\* keeping their content and relative order.
C8_RemoveQuestion ==
  \A id \in QuestionIdsOf(questions) \cup RemovedQuestionIds :
    LET next == removeQuestionEffect(State, id)
    IN IF Len(questions) = 1 \/ QuestionsWithId(questions, id) = {}
       THEN next.questions = questions
       ELSE \E i \in QuestionsWithId(questions, id) :
              next.questions = WithoutAt(questions, i)

\* The first question was removed from a two-question draft: the second one,
\* alone, remains.
C8_Witness ==
  /\ Len(questions) = 1
  /\ questions[1].id = 7
  /\ questions[1].ordem = 2

\* C9: removeOption(q, o) leaves a one-option question unchanged; with two or
\* more options it removes exactly option o, the others keeping their content
\* and relative order.
C9_RemoveOption ==
  \A i \in DOMAIN questions :
    \A o \in OptionIdsOf(questions[i].options) \cup TrimmedOptionIds :
      LET next == removeOptionEffect(State, questions[i].id, o)
          before == questions[i].options
          after == next.questions[i].options
      IN IF Len(before) = 1 \/ OptionsWithId(before, o) = {}
         THEN after = before
         ELSE \E k \in OptionsWithId(before, o) : after = WithoutAt(before, k)

\* Question 1 is down to option 6, the last one whose Remover is pressed, next
\* to an untouched second question.
C9_Witness ==
  /\ Len(questions) = 2
  /\ questions[1].id = 1
  /\ Len(questions[1].options) = 1
  /\ questions[1].options[1].id = 6

\* C10 as stated: reset leaves an empty title and description, ativo = TRUE
\* and one question with empty text holding exactly one option, empty and
\* active.
C10_Original ==
  LET next == resetEffect(State)
  IN /\ next.titulo = << >> /\ next.descricao = << >> /\ next.ativo = TRUE
     /\ Len(next.questions) = 1
     /\ next.questions[1].texto = << >>
     /\ Len(next.questions[1].options) = 1
     /\ next.questions[1].options[1].texto = << >>
     /\ next.questions[1].options[1].ativo = TRUE

\* C10 (amended): reset leaves an empty title and description, ativo = TRUE
\* and one question with empty text holding exactly five options, each empty
\* and active.
C10_Reset ==
  LET next == resetEffect(State)
  IN /\ next.titulo = << >> /\ next.descricao = << >> /\ next.ativo = TRUE
     /\ Len(next.questions) = 1
     /\ next.questions[1].texto = << >>
     /\ Len(next.questions[1].options) = 5
     /\ \A k \in DOMAIN next.questions[1].options :
          /\ next.questions[1].options[k].texto = << >>
          /\ next.questions[1].options[k].ativo = TRUE

\* An edited draft, on which Limpar acts: header filled in, two questions, the
\* first with a text and a sixth option.
C10_Witness ==
  /\ titulo # << >> /\ descricao # << >> /\ ativo = FALSE /\ dataValidade # << >>
  /\ Len(questions) = 2
  /\ questions[1].texto # << >>
  /\ Len(questions[1].options) = 6

\* C11: loadTemplate('supermarkets') on any draft leaves the template title
\* and description, ativo = TRUE and exactly 10 questions with order 1..10 in
\* list order, each with exactly 5 options, all with a non-empty text and
\* active; nothing of the previous question list is left.
C11_LoadTemplate ==
  LET next == loadTemplateEffect(State, "supermarkets")
  IN /\ next.titulo = TEMPLATE_TITLE /\ next.descricao = TEMPLATE_DESCRIPTION
     /\ next.titulo # << >> /\ next.descricao # << >>
     /\ next.ativo = TRUE
     /\ Len(next.questions) = 10
     /\ \A i \in DOMAIN next.questions :
          /\ next.questions[i].ordem = i
          /\ next.questions[i].texto = TEMPLATE_QUESTIONS[i]
          /\ Len(next.questions[i].options) = 5
          /\ \A k \in DOMAIN next.questions[i].options :
               /\ next.questions[i].options[k].texto # << >>
               /\ next.questions[i].options[k].ativo = TRUE
     /\ next.questions = loadTemplateEffect(InitialState, "supermarkets").questions

\* The template has replaced a draft whose expiry had been filled in, and its
\* first question has since been given a sixth option.
C11_Witness ==
  /\ selectedTemplate = "supermarkets"
  /\ titulo = TEMPLATE_TITLE
  /\ dataValidade # << >>
  /\ Len(questions) = 10
  /\ questions[10].ordem = 10
  /\ Len(questions[1].options) = 6
  /\ \A i \in 2..10 : NumberActive(questions[i].options) = 5
\* A text that is empty after trimming.
IsBlank(text) == \A i \in DOMAIN text : text[i] \in Whitespace

HasBlankQuestion(qs) == \E i \in DOMAIN qs : IsBlank(qs[i].texto)

\* The save button can be clicked.
CanSubmit == ~isSaving /\ navigatedTo = NoId

\* C12: a click on save with a title or a question text that is empty after
\* trimming sends no request (no call is issued, none is counted, nothing is
\* in flight afterwards) and leaves the draft unchanged.
C12_InvalidDraftSendsNothing ==
  (CanSubmit /\ (IsBlank(titulo) \/ HasBlankQuestion(questions))) =>
    LET next == handleSubmitEffect(State)
    IN /\ next.calls = calls
       /\ next.surveyRequests = surveyRequests
       /\ next.isSaving = FALSE
       /\ next.navigatedTo = NoId
       /\ DraftOf(next) = DraftOf(State)

\* A click on save was refused for a question text made of a blank, under a
\* title that is fine, after an earlier submission had got as far as the network.
C12_Witness ==
  /\ error = ErrQuestionText
  /\ ~IsBlank(titulo)
  /\ \E i \in DOMAIN questions : questions[i].texto = <<" ">>
  /\ ~isSaving /\ calls = << >> /\ surveyRequests = 1

\* The draft with every option of its first question switched on: with six
\* options it breaks the third rule, which no edit of the page can do.
AllActive(st) ==
  [st EXCEPT !.questions[1].options =
     [k \in DOMAIN @ |-> [@[k] EXCEPT !.ativo = TRUE]]]

\* C13: validation reports the first failing rule only, in the order title,
\* question texts, active count above 5: a blank title yields the title error
\* whatever else is wrong, a blank question text yields the question error
\* whatever the active counts are.
C13_ValidationOrder ==
  CanSubmit =>
    \A st \in {State, AllActive(State)} :
      LET next == handleSubmitEffect(st)
      IN /\ IsBlank(st.titulo) => next.error = ErrTitle
         /\ (~IsBlank(st.titulo) /\ HasBlankQuestion(st.questions)) =>
              next.error = ErrQuestionText
         /\ (~IsBlank(st.titulo) /\ ~HasBlankQuestion(st.questions)) =>
              IF \E i \in DOMAIN st.questions : NumberActive(st.questions[i].options) > 5
              THEN next.error = ErrTooManyActive /\ next.calls = st.calls
              ELSE next.error = Undefined

\* Both the title and a question text are blank, and the title error is shown.
C13_Witness ==
  /\ error = ErrTitle
  /\ titulo = <<" ">>
  /\ Len(questions) = 2
  /\ questions[1].texto = <<" ">>
  /\ questions[2].texto = <<"b">>
  /\ ~isSaving
\* The positions in the log of the requests of a kind, and of those issued
\* before position n.
CallsOf(kind) == {n \in DOMAIN calls : calls[n].kind = kind}

CallsBefore(kind, n) == {m \in CallsOf(kind) : m < n}

\* trimmed is text without its leading and trailing blanks.
IsTrimOf(trimmed, text) ==
  \E a, b \in 0..Len(text) :
    /\ a + b <= Len(text)
    /\ trimmed = SubSeq(text, a + 1, Len(text) - b)
    /\ IsBlank(SubSeq(text, 1, a)) /\ IsBlank(SubSeq(text, Len(text) - b + 1, Len(text)))
    /\ trimmed # << >> => (~IsBlank(<<trimmed[1]>>) /\ ~IsBlank(<<trimmed[Len(trimmed)]>>))

\* A request that has been answered with a created entity.
Answered(call) == call.response # Pending /\ call.response # Rejected

\* C14: the requests of a submission go out one at a time and in dependency
\* order: the survey first; every request but the last has been answered; the
\* questions in draft order; each option after its own question and before
\* the next question, the options of a question in draft order.
C14_SequentialOrder ==
  calls # << >> =>
    /\ CallsOf("survey") = {1}
    /\ \A n \in DOMAIN calls : n < Len(calls) => Answered(calls[n])
    /\ \A n \in CallsOf("question") :
         /\ calls[n].q = Cardinality(CallsBefore("question", n)) + 1
         /\ calls[n].o = 0
         /\ calls[n].payload.ordem = snapshot.questions[calls[n].q].ordem
         /\ IsTrimOf(calls[n].payload.texto, snapshot.questions[calls[n].q].texto)
    /\ \A n \in CallsOf("option") :
         /\ calls[n].q = Cardinality(CallsBefore("question", n))
         /\ calls[n].q >= 1
         /\ \A m \in CallsBefore("option", n) :
              calls[m].q = calls[n].q => calls[m].o < calls[n].o
         /\ IsTrimOf(calls[n].payload.texto,
                     snapshot.questions[calls[n].q].options[calls[n].o].texto)
    /\ CallsOf("survey") \cup CallsOf("question") \cup CallsOf("option") = DOMAIN calls

\* A submission of two questions has gone through: survey, question 1, its
\* two options, question 2, its option.
C14_Witness ==
  /\ navigatedTo # NoId
  /\ Len(calls) = 6
  /\ calls[3].kind = "option" /\ calls[3].payload.texto = <<"x">>
  /\ calls[4].kind = "option" /\ calls[4].payload.texto = <<"y">>
  /\ calls[5].kind = "question" /\ calls[5].payload.texto = <<"b">>
  /\ calls[6].kind = "option" /\ calls[6].payload.texto = <<"z">>

\* C15: a submission that succeeded has sent exactly one survey create, one
\* question create per question of the draft, and one option create per
\* option whose text is not blank, carrying the option's active flag; a blank
\* option is not sent, its question is.
C15_ExactlyOnce ==
  navigatedTo # NoId =>
    /\ success = SuccessMessage
    /\ Cardinality(CallsOf("survey")) = 1
    /\ \A q \in DOMAIN snapshot.questions :
         /\ Cardinality({n \in CallsOf("question") : calls[n].q = q}) = 1
         /\ \A o \in DOMAIN snapshot.questions[q].options :
              LET sent == {n \in CallsOf("option") : calls[n].q = q /\ calls[n].o = o}
                  option == snapshot.questions[q].options[o]
              IN IF IsBlank(option.texto) THEN sent = {}
                 ELSE /\ Cardinality(sent) = 1
                      /\ \A n \in sent : calls[n].payload.ativo = option.ativo
    /\ \A n \in CallsOf("question") : calls[n].q \in DOMAIN snapshot.questions
    /\ \A n \in CallsOf("option") :
         /\ calls[n].q \in DOMAIN snapshot.questions
         /\ calls[n].o \in DOMAIN snapshot.questions[calls[n].q].options
    /\ \A n \in DOMAIN calls : Answered(calls[n])

\* A submission has succeeded whose first option was a blank and was skipped,
\* and whose second option was sent switched off.
C15_Witness ==
  /\ navigatedTo # NoId
  /\ snapshot.questions[1].options[1].texto = <<" ">>
  /\ snapshot.questions[1].options[2].ativo = FALSE
  /\ Len(snapshot.questions[1].options) = 5
  /\ Len(snapshot.questions) = 1
  /\ Len(calls) = 3
  /\ calls[3].payload.ativo = FALSE

\* C16: every question create carries the identifier with which the survey
\* create of the same submission was answered, and every option create the
\* identifier with which the create of its own question was answered; these
\* are identifiers given by the backend.
C16_ParentIdentifiers ==
  /\ \A n \in CallsOf("question") :
       /\ calls[n].payload.surveyId = calls[1].response
       /\ calls[n].payload.surveyId = <<"survey", surveyRequests, 0>>
  /\ \A n \in CallsOf("option") :
       \E m \in CallsBefore("question", n) :
         /\ calls[m].q = calls[n].q
         /\ Answered(calls[m])
         /\ calls[n].payload.questionId = calls[m].response
         /\ calls[n].payload.questionId[1] = "question"
         /\ \A k \in CallsOf("question") :
              k # m => calls[n].payload.questionId # calls[k].response

\* In a second submission the option of the second question is in flight.
C16_Witness ==
  /\ isSaving
  /\ surveyRequests = 2
  /\ Len(calls) = 5
  /\ calls[3].kind = "option" /\ calls[3].q = 1
  /\ calls[5].kind = "option" /\ calls[5].q = 2
  /\ calls[5].response = Pending
\* The messages of a failed request and of a refused draft.
RemoteErrors == {ErrConnection, ErrTimeout, ErrProcessing}

ValidationErrors == {ErrTitle, ErrQuestionText, ErrTooManyActive}

\* C17: when the request in flight fails, handleSubmit sends nothing more,
\* neither a create nor a delete (the log gains no request, the failed one is
\* its last), is over (nothing is in flight and only a new click can send
\* again), and has set an error message.
C17_FailureAborts ==
  /\ isSaving =>
       \A err \in Failures :
         LET caught == catchFinally(State, err)
             next == requestRejectedEffect(State, err)
         IN /\ Len(caught.calls) = Len(calls)
            /\ \A n \in DOMAIN calls : n < Len(calls) => caught.calls[n] = calls[n]
            /\ caught.calls[Len(calls)] = [calls[Len(calls)] EXCEPT !.response = Rejected]
            /\ next.surveyRequests = surveyRequests
            /\ next.isSaving = FALSE
            /\ \A n \in DOMAIN next.calls : next.calls[n].response # Pending
            /\ next.error \in RemoteErrors
            /\ next.navigatedTo = NoId
  /\ ~isSaving => \A n \in DOMAIN calls : calls[n].response # Pending

\* A submission has failed for want of a connection; nothing is in flight.
C17_Witness ==
  /\ error = ErrConnection
  /\ ~isSaving
  /\ calls = << >>
  /\ surveyRequests = 1
  /\ Len(questions) = 1

\* C18: no step of a submission touches the draft: not the click, whether the
\* draft is refused or sent, not the answer to a request, not its failure.
C18_DraftKept ==
  /\ CanSubmit => DraftOf(handleSubmitEffect(State)) = DraftOf(State)
  /\ isSaving =>
       /\ DraftOf(requestResolvedEffect(State)) = DraftOf(State)
       /\ \A err \in Failures : DraftOf(requestRejectedEffect(State, err)) = DraftOf(State)

\* A submission of a filled-in draft of two questions has failed at the
\* backend, and the draft is still there.
C18_Witness ==
  /\ error = ErrProcessing
  /\ ~isSaving
  /\ titulo = <<" ", "t">>
  /\ Len(questions) = 2
  /\ questions[1].texto = <<"a", " ">>
  /\ questions[1].options[2].texto = <<"y">>
  /\ questions[2].texto = <<"b">>

\* A draft that passes validation.
IsValid(st) ==
  /\ ~IsBlank(st.titulo)
  /\ ~HasBlankQuestion(st.questions)
  /\ \A i \in DOMAIN st.questions : NumberActive(st.questions[i].options) <= 5

\* The number of requests a complete submission of a draft takes.
RequestsFor(qs) ==
  1 + Len(qs)
    + Cardinality({<<q, o>> \in (DOMAIN qs) \X (1..MaxOptions) :
                     o \in DOMAIN qs[q].options /\ ~IsBlank(qs[q].options[o].texto)})

\* C19: a click on save with a valid draft starts from scratch however many
\* submissions went before and whatever they created: it sends one more
\* survey create, for a survey of its own, as its first request and takes the
\* whole draft along; when it succeeds it has sent the requests of the whole
\* draft.
C19_RetryFromScratch ==
  /\ (CanSubmit /\ IsValid(State)) =>
       LET next == handleSubmitEffect(State)
       IN /\ next.surveyRequests = surveyRequests + 1
          /\ Len(next.calls) = 1
          /\ next.calls[1].kind = "survey" /\ next.calls[1].response = Pending
          /\ next.snapshot.questions = questions
          /\ next.isSaving = TRUE
  /\ (calls # << >> /\ Answered(calls[1])) => calls[1].response = <<"survey", surveyRequests, 0>>
  /\ navigatedTo # NoId => Len(calls) = RequestsFor(snapshot.questions)

\* After one failed attempt the second has succeeded: two survey creates were
\* sent and the page of the second survey is open.
C19_Witness ==
  /\ surveyRequests = 2
  /\ navigatedTo = <<"survey", 2, 0>>
  /\ success = SuccessMessage
  /\ Len(calls) = 6

\* C20 as stated: success is signalled only once every request has been
\* answered, with the identifier of the created survey, and never together
\* with an error message.
C20_Original ==
  /\ success # Undefined =>
       /\ navigatedTo # NoId /\ navigatedTo = calls[1].response
       /\ Len(calls) = RequestsFor(snapshot.questions)
       /\ \A n \in DOMAIN calls : Answered(calls[n])
  /\ ~(success # Undefined /\ error # Undefined)

\* C20: success is signalled, and the page of the survey opened, only once
\* every request of the submission has been answered, with the identifier the
\* survey create was answered with; the answer to a request sets no error
\* message, and the only message that can stand beside the success message is
\* a warning of the active-option cap, never that of a refused draft or of a
\* failed request.
C20_SuccessSignal ==
  /\ success # Undefined =>
       /\ navigatedTo # NoId /\ navigatedTo = calls[1].response
       /\ Len(calls) = RequestsFor(snapshot.questions)
       /\ \A n \in DOMAIN calls : Answered(calls[n])
       /\ error \in {Undefined, ErrAddInactive, ErrActivateDenied}
  /\ navigatedTo # NoId => success = SuccessMessage
  /\ isSaving =>
       LET next == requestResolvedEffect(State)
       IN /\ next.error = error
          /\ next.success # Undefined <=> Len(calls) = RequestsFor(snapshot.questions)

\* A submission has succeeded while the warning of an option added during the
\* requests was standing.
C20_Witness ==
  /\ success = SuccessMessage
  /\ navigatedTo = <<"survey", 1, 0>>
  /\ error = ErrAddInactive
  /\ Len(questions[1].options) = Len(snapshot.questions[1].options) + 1

\* C21: in every reachable state the order of every question is a positive
\* integer, whatever is typed into the order inputs and whatever questions are
\* added or removed.
C21_OrderPositive ==
  \A i \in DOMAIN questions : questions[i].ordem \in Nat /\ questions[i].ordem >= 1

\* The draft with a title and with a text in every question: what is left to
\* refuse is the number of active options.
Filled(st) ==
  [st EXCEPT !.titulo = <<"t">>,
             !.questions = [i \in DOMAIN @ |-> [@[i] EXCEPT !.texto = <<"a">>]]]

\* C24: no draft the editing operations can reach is refused by the save
\* button for having more than 5 active options in a question: whatever the
\* tree, once its texts are filled in the click passes validation.
C24_CapCheckNeverFails ==
  /\ error # ErrTooManyActive
  /\ handleSubmitEffect(State).error # ErrTooManyActive
  /\ handleSubmitEffect(Filled(State)).error = Undefined
  /\ handleSubmitEffect(Filled(State)).isSaving = TRUE

\* Two questions, the first with six options of which five are active after
\* an activation was denied.
C24_Witness ==
  /\ Len(questions) = 2
  /\ Len(questions[1].options) = 6
  /\ NumberActive(questions[1].options) = 5
  /\ error = ErrActivateDenied

\* What an operation addressed to the question at position i leaves alone:
\* the other questions, the header fields and the number of questions.
FrameOfQuestion(next, i) ==
  /\ Len(next.questions) = Len(questions)
  /\ \A j \in DOMAIN questions : j # i => next.questions[j] = questions[j]
  /\ next.questions[i].id = questions[i].id
  /\ next.titulo = titulo /\ next.descricao = descricao
  /\ next.ativo = ativo /\ next.dataValidade = dataValidade

\* Every option of the question at position i but the one at position k is
\* as it was.
OtherOptionsKept(next, i, k) ==
  /\ Len(next.questions[i].options) = Len(questions[i].options)
  /\ \A l \in DOMAIN questions[i].options :
       l # k => next.questions[i].options[l] = questions[i].options[l]

\* An identifier no question and no option of the draft has.
UnknownId == Max0(DraftIds(questions)) + 1

\* C25: an operation addressed to one question or option always takes a
\* text or an order, leaves the other questions, the other options of the
\* question and the header fields as they were, and changes nothing at all
\* when the identifier it names is not in the draft.
C25_Frame ==
  /\ \A i \in DOMAIN questions :
       LET q == questions[i]
       IN /\ \A t \in Texts :
               LET next == updateQuestionEffect(State, q.id, [texto |-> t])
               IN /\ FrameOfQuestion(next, i)
                  /\ next.questions[i] = [q EXCEPT !.texto = t]
                  /\ next.error = error
          /\ \A v \in OrderInputs :
               LET next == updateQuestionEffect(State, q.id, [ordem |-> v])
               IN /\ FrameOfQuestion(next, i)
                  /\ next.questions[i] = [q EXCEPT !.ordem = v]
                  /\ next.error = error
          /\ LET next == addOptionEffect(State, q.id)
             IN /\ FrameOfQuestion(next, i)
                /\ SubSeq(next.questions[i].options, 1, Len(q.options)) = q.options
                /\ next.questions[i].texto = q.texto /\ next.questions[i].ordem = q.ordem
          /\ \A k \in DOMAIN q.options :
               /\ LET next == removeOptionEffect(State, q.id, q.options[k].id)
                  IN /\ FrameOfQuestion(next, i)
                     /\ \A l \in DOMAIN next.questions[i].options :
                          \E b \in DOMAIN q.options :
                            next.questions[i].options[l] = q.options[b]
                     /\ next.questions[i].texto = q.texto /\ next.questions[i].ordem = q.ordem
               /\ \A t \in Texts :
                    LET next == updateOptionEffect(State, q.id, q.options[k].id, [texto |-> t])
                    IN /\ FrameOfQuestion(next, i)
                       /\ OtherOptionsKept(next, i, k)
                       /\ next.questions[i].options[k] = [q.options[k] EXCEPT !.texto = t]
                       /\ next.error = error
               /\ \A b \in BOOLEAN :
                    LET next == updateOptionEffect(State, q.id, q.options[k].id, [ativo |-> b])
                    IN /\ FrameOfQuestion(next, i)
                       /\ OtherOptionsKept(next, i, k)
                       /\ next.questions[i].options[k].texto = q.options[k].texto
          /\ updateOptionEffect(State, q.id, UnknownId, [texto |-> <<"a">>]) = State
          /\ updateOptionEffect(State, q.id, UnknownId, [ativo |-> TRUE]) = State
          /\ removeOptionEffect(State, q.id, UnknownId) = State
  /\ updateQuestionEffect(State, UnknownId, [texto |-> <<"a">>]) = State
  /\ updateQuestionEffect(State, UnknownId, [ordem |-> 2]) = State
  /\ addOptionEffect(State, UnknownId) = State
  /\ removeOptionEffect(State, UnknownId, UnknownId) = State
  /\ updateOptionEffect(State, UnknownId, UnknownId, [ativo |-> TRUE]) = State

\* The first of two questions has been given a text and an order and its
\* first option a text and the inactive flag; the second question and the
\* second option are as they were created.
C25_Witness ==
  /\ Len(questions) = 2
  /\ questions[1].texto = <<"a">> /\ questions[1].ordem = 2
  /\ questions[1].options[1].id = 2
  /\ questions[1].options[1].texto = <<"a">> /\ questions[1].options[1].ativo = FALSE
  /\ questions[1].options[2] = [id |-> 3, texto |-> << >>, ativo |-> TRUE]
  /\ questions[2].texto = << >> /\ questions[2].ordem = 2
  /\ NumberActive(questions[2].options) = 5

\* C28: loading the template replaces title, description, active flag and
\* question tree and clears the error and success messages but keeps the
\* expiry; Limpar empties the expiry and the selected template as well.
C28_TemplateKeepsExpiry ==
  LET loaded == loadTemplateEffect(State, "supermarkets")
      cleared == resetEffect(State)
  IN /\ loaded.dataValidade = dataValidade
     /\ loaded.titulo = TEMPLATE_TITLE /\ loaded.descricao = TEMPLATE_DESCRIPTION
     /\ loaded.ativo = TRUE
     /\ Len(loaded.questions) = Len(TEMPLATE_QUESTIONS)
     /\ \A i \in DOMAIN loaded.questions : loaded.questions[i].texto = TEMPLATE_QUESTIONS[i]
     /\ loaded.error = Undefined /\ loaded.success = Undefined
     /\ loaded.selectedTemplate = "supermarkets"
     /\ cleared.dataValidade = << >>
     /\ cleared.selectedTemplate = ""
     /\ cleared.error = Undefined /\ cleared.success = Undefined
     /\ cleared.titulo = << >> /\ cleared.descricao = << >> /\ cleared.ativo = TRUE

\* The template stands loaded, untouched, over an expiry typed in earlier, and
\* the warning that was showing is gone.
C28_Witness ==
  /\ selectedTemplate = "supermarkets"
  /\ dataValidade = <<"2", "0", "3", "0">>
  /\ questions = builtQuestions
  /\ titulo = TEMPLATE_TITLE /\ descricao = TEMPLATE_DESCRIPTION /\ ativo = TRUE
  /\ error = Undefined

\* What the user may do to the page while requests are in flight.
InFlightEdits ==
  {[State EXCEPT !.titulo = <<"u">>],
   [State EXCEPT !.descricao = <<"d">>],
   [State EXCEPT !.ativo = ~ativo],
   [State EXCEPT !.dataValidade = <<"2", "0", "3", "0">>],
   addQuestionEffect(State),
   removeQuestionEffect(State, questions[1].id),
   updateQuestionEffect(State, questions[1].id, [texto |-> <<"c">>]),
   updateQuestionEffect(State, questions[1].id, [ordem |-> 9]),
   addOptionEffect(State, questions[1].id),
   removeOptionEffect(State, questions[1].id, questions[1].options[1].id),
   updateOptionEffect(State, questions[1].id, questions[1].options[1].id, [texto |-> <<"c">>]),
   updateOptionEffect(State, questions[1].id, questions[1].options[1].id,
                      [ativo |-> ~questions[1].options[1].ativo]),
   loadTemplateEffect(State, "supermarkets"),
   resetEffect(State)}

\* C22: what a submission sends is the draft of the moment of the click: the
\* click takes the draft along; nothing done to the page while requests are in
\* flight changes what was taken, what has been sent or what is sent next; and
\* every request sent carries what was taken.
C22_DraftFixedAtClick ==
  /\ (CanSubmit /\ IsValid(State)) =>
       handleSubmitEffect(State).snapshot =
         [titulo |-> titulo, descricao |-> descricao, ativo |-> ativo,
          dataValidade |-> dataValidade, questions |-> questions]
  /\ requestInFlight(State) =>
       \A edited \in InFlightEdits :
         /\ edited.snapshot = snapshot
         /\ edited.calls = calls
         /\ requestResolvedEffect(edited).calls = requestResolvedEffect(State).calls
  /\ calls # << >> =>
       /\ IsTrimOf(calls[1].payload.titulo, snapshot.titulo)
       /\ calls[1].payload.ativo = snapshot.ativo
       /\ \A n \in CallsOf("question") :
            /\ IsTrimOf(calls[n].payload.texto, snapshot.questions[calls[n].q].texto)
            /\ calls[n].payload.ordem = snapshot.questions[calls[n].q].ordem
       /\ \A n \in CallsOf("option") :
            LET option == snapshot.questions[calls[n].q].options[calls[n].o]
            IN /\ IsTrimOf(calls[n].payload.texto, option.texto)
               /\ calls[n].payload.ativo = option.ativo

\* The template was loaded while the requests of a draft of two questions
\* were in flight, and the second question of that draft has been sent.
C22_Witness ==
  /\ isSaving
  /\ selectedTemplate = "supermarkets"
  /\ Len(questions) = 10
  /\ Len(snapshot.questions) = 2
  /\ titulo = TEMPLATE_TITLE /\ snapshot.titulo = <<" ", "t">>
  /\ \E n \in CallsOf("question") : calls[n].q = 2 /\ calls[n].payload.texto = <<"b">>

\* C23: nothing done to the page gives up a submission that is under way, and
\* when every request is answered with the created entity a submission under
\* way leads to the success message and the page of the survey.
C23_NoCancellation ==
  /\ [](requestInFlight(State) =>
         \A edited \in InFlightEdits : edited.isSaving /\ requestInFlight(edited))
  /\ (isSaving ~> (success = SuccessMessage /\ navigatedTo # NoId))

\* Limpar was pressed while the requests of a draft of two questions were in
\* flight, and the submission has succeeded all the same.
C23_Witness ==
  /\ navigatedTo # NoId
  /\ success = SuccessMessage
  /\ titulo = << >>
  /\ selectedTemplate = ""
  /\ questions = << createQuestionDraft(1, {}) >>
  /\ Len(snapshot.questions) = 2
  /\ Len(calls) = RequestsFor(snapshot.questions)

\* C26: at most one submission is under way: while isSaving the save button
\* is disabled and a click cannot start another, and at no moment is more
\* than one request unanswered.
C26_OnePipeline ==
  /\ Cardinality({n \in DOMAIN calls : calls[n].response = Pending}) <= 1
  /\ requestInFlight(State) => isSaving
  /\ isSaving => saveDisabled(State)
  /\ isSaving => ~ENABLED handleSubmit

\* In a second submission the third request is in flight, the two before it
\* answered.
C26_Witness ==
  /\ isSaving
  /\ surveyRequests = 2
  /\ Len(calls) = 3
  /\ calls[3].response = Pending
  /\ Answered(calls[1]) /\ Answered(calls[2])

ErrSessionExpired == "Sessao expirada. Faca login novamente."

\* Tokens a login may return: one without exp, one that expires at the next tick.
LoginTokens == {Token(NoExp), Token(now + 1)}

SessionState ==
  [storedToken |-> storedToken, authorization |-> authorization,
   hasRedirectedForAuth |-> hasRedirectedForAuth, loginNavigations |-> loginNavigations]

SessionCommit(next) ==
  \E session \in {next} :
    /\ storedToken' = session.storedToken
    /\ authorization' = session.authorization
    /\ hasRedirectedForAuth' = session.hasRedirectedForAuth
    /\ loginNavigations' = session.loginNavigations

\* isTokenExpired at clock time: no token is expired, a token without exp never is.
isTokenExpired(token, time) ==
  IF token = Null THEN TRUE
  ELSE IF token[2] = NoExp THEN FALSE
  ELSE time >= token[2]

redirectToLogin(session) ==
  IF session.hasRedirectedForAuth THEN session
  ELSE [session EXCEPT !.hasRedirectedForAuth = TRUE, !.loginNavigations = @ + 1]

setAuthToken(session, token) ==
  IF token # Null
  THEN [session EXCEPT !.authorization = <<"Bearer", token[2]>>, !.storedToken = token]
  ELSE [session EXCEPT !.authorization = NoHeader, !.storedToken = Null,
                       !.hasRedirectedForAuth = FALSE]

\* The response interceptor on an answer with status 401 or 403.
unauthorizedEffect(session) == redirectToLogin(setAuthToken(session, Null))

ensureValidSessionEffect(session, time) ==
  IF isTokenExpired(session.storedToken, time)
  THEN redirectToLogin(setAuthToken(session, Null))
  ELSE session

\* authApi.login once the backend has answered with a token; from here on the
\* navigations are counted anew.
loginEffect(session, token) ==
  [setAuthToken(session, token) EXCEPT !.loginNavigations = 0]

\* authApi.logout: the finally block.
logoutEffect(session) == setAuthToken(session, Null)

(* ------------------------------------------------- the survey detail page *)
(* pages/SurveyDetailPage: the four handlers that send an option to the    *)
(* backend.  A handler runs up to its await; the answer to a request, in   *)
(* optionResolved and optionRejected, runs the rest of it.                 *)

ErrOptionText == "Informe um texto para a opcao."
ErrSelectQuestion == "Selecione uma pergunta para adicionar a opcao."
ErrMaxActive ==
  "Maximo de 5 opcoes ativas por pergunta. Desative uma opcao antes de ativar outra."
FeedbackOptionAdded == "Opcao adicionada com sucesso."

\* What is typed into the detail page.
NewOptionTexts == {<< >>, <<" ", "n">>}
\* How a request of the detail page fails when the session is good.
DetailFailures == {[response |-> FALSE, code |-> "ERR_NETWORK", message |-> ""]}
OptionFormTexts == {<<"f", " ">>}
\* The options whose pill is clicked or that are edited.
ToggledOptionIds == {5}
EditedDetailOptionIds == {5}

DetailState ==
  [survey |-> survey, stored |-> stored, optionForm |-> optionForm,
   editingOption |-> editingOption, savingOptionId |-> savingOptionId,
   newOptionText |-> newOptionText, feedback |-> feedback, formError |-> formError,
   toast |-> toast, optionCalls |-> optionCalls]

DetailCommit(next) ==
  \E rendered \in {next} :
    /\ survey' = rendered.survey
    /\ stored' = rendered.stored
    /\ optionForm' = rendered.optionForm
    /\ editingOption' = rendered.editingOption
    /\ savingOptionId' = rendered.savingOptionId
    /\ newOptionText' = rendered.newOptionText
    /\ feedback' = rendered.feedback
    /\ formError' = rendered.formError
    /\ toast' = rendered.toast
    /\ optionCalls' = rendered.optionCalls

\* survey?.questions.find((q) => q.id === questionId): the places of the match.
findQuestion(structure, questionId) ==
  {i \in DOMAIN structure.questions :
     /\ structure.questions[i].id = questionId
     /\ \A j \in 1..(i - 1) : structure.questions[j].id # questionId}

\* (question.options ?? []).filter((option) => option.ativo).length
activeCount(question) ==
  Cardinality({k \in DOMAIN question.options : question.options[k].ativo})

\* The loaded question is at the limit of active options.
atLimit(st, questionId) ==
  \E i \in findQuestion(st.survey, questionId) :
    activeCount(st.survey.questions[i]) >= MAX_ACTIVE_OPTIONS

\* The text of the loaded option, '' when it is not found.
loadedText(st, questionId, optionId) ==
  LET found == {<<i, k>> \in UNION {{i} \X DOMAIN st.survey.questions[i].options :
                                      i \in findQuestion(st.survey, questionId)} :
                  st.survey.questions[i].options[k].id = optionId}
  IN IF found = {} THEN << >>
     ELSE LET first == CHOOSE p \in found : \A r \in found : p[2] <= r[2]
          IN st.survey.questions[first[1]].options[first[2]].texto

\* optionApi.create and optionApi.update up to the await.
sendOption(st, kind, id, payload, origin) ==
  [st EXCEPT !.optionCalls =
     Append(@, [kind |-> kind, id |-> id, payload |-> payload, origin |-> origin])]

handleInlineAddOptionEffect(st, questionId) ==
  LET text == Trim(st.newOptionText[questionId])
  IN IF text = << >> THEN [st EXCEPT !.formError = ErrOptionText]
     ELSE IF atLimit(st, questionId) THEN [st EXCEPT !.formError = ErrMaxActive]
     ELSE sendOption([st EXCEPT !.formError = Undefined], "create", 0,
                     [texto |-> text, ativo |-> TRUE, questionId |-> questionId], "inline")

handleOptionSubmitEffect(st) ==
  LET cleared == [st EXCEPT !.feedback = Undefined, !.formError = Undefined]
      parsedQuestionId == st.optionForm.questionId
  IN IF parsedQuestionId = 0 THEN [cleared EXCEPT !.formError = ErrSelectQuestion]
     ELSE IF st.optionForm.ativo /\ atLimit(st, parsedQuestionId)
          THEN [cleared EXCEPT !.formError = ErrMaxActive]
     ELSE sendOption(cleared, "create", 0,
                     [texto |-> Trim(st.optionForm.texto), ativo |-> st.optionForm.ativo,
                      questionId |-> parsedQuestionId], "form")

toggleOptionActiveEffect(st, optionId, questionId, current) ==
  sendOption([st EXCEPT !.savingOptionId = optionId, !.formError = Undefined],
             "update", optionId,
             [texto |-> loadedText(st, questionId, optionId), ativo |-> ~current,
              questionId |-> questionId], "toggle")

saveOptionEditEffect(st) ==
  IF st.editingOption.id = 0 \/ st.editingOption.questionId = 0 THEN st
  ELSE sendOption([st EXCEPT !.formError = Undefined], "update", st.editingOption.id,
                  [texto |-> Trim(st.editingOption.texto), ativo |-> st.editingOption.ativo,
                   questionId |-> st.editingOption.questionId], "edit")

\* The identifiers of the options the backend holds.
storedOptionIds(structure) ==
  UNION {{structure.questions[i].options[k].id : k \in DOMAIN structure.questions[i].options} :
           i \in DOMAIN structure.questions}

\* The backend carries out a request.
carriedOut(structure, call) ==
  [questions |->
     [i \in DOMAIN structure.questions |->
        LET question == structure.questions[i]
        IN IF call.kind = "create"
           THEN IF question.id = call.payload.questionId
                THEN [question EXCEPT !.options =
                        Append(@, [id |-> uniqueId(storedOptionIds(structure)),
                                   texto |-> call.payload.texto,
                                   ativo |-> call.payload.ativo])]
                ELSE question
           ELSE [question EXCEPT !.options =
                   [k \in DOMAIN @ |->
                      IF @[k].id = call.id
                      THEN [@[k] EXCEPT !.texto = call.payload.texto,
                                        !.ativo = call.payload.ativo]
                      ELSE @[k]]]]]

\* The rest of the handler after its request has succeeded, loadSurvey included.
optionResolvedEffect(st, n) ==
  LET call == st.optionCalls[n]
      saved == carriedOut(st.stored, call)
      after ==
        CASE call.origin = "inline" ->
               [st EXCEPT !.newOptionText[call.payload.questionId] = << >>]
          [] call.origin = "form" ->
               [st EXCEPT !.optionForm = [questionId |-> call.payload.questionId,
                                          texto |-> << >>, ativo |-> TRUE],
                          !.feedback = FeedbackOptionAdded]
          [] call.origin = "toggle" -> [st EXCEPT !.savingOptionId = 0]
          [] call.origin = "edit" -> [st EXCEPT !.editingOption = NoEditing]
  IN [after EXCEPT !.stored = saved, !.survey = saved,
                   !.optionCalls = WithoutAt(@, n)]

\* The catch block of the handler, and the finally block of toggleOptionActive.
optionRejectedEffect(st, n, msg) ==
  [st EXCEPT !.formError = msg, !.toast = msg,
             !.savingOptionId = IF st.optionCalls[n].origin = "toggle" THEN 0 ELSE @,
             !.optionCalls = WithoutAt(@, n)]

(* actions of the detail page *)

loadSurvey ==
  /\ survey = NoSurvey
  /\ DetailCommit([DetailState EXCEPT !.survey = stored])
  /\ UNCHANGED <<pageVars, authVars>>

setNewOptionText(questionId, text) ==
  /\ survey # NoSurvey
  /\ DetailCommit([DetailState EXCEPT !.newOptionText[questionId] = text])
  /\ UNCHANGED <<pageVars, authVars>>

setOptionForm(patch) ==
  /\ survey # NoSurvey
  /\ DetailCommit([DetailState EXCEPT !.optionForm =
       [f \in DOMAIN @ |-> IF f \in DOMAIN patch THEN patch[f] ELSE @[f]]])
  /\ UNCHANGED <<pageVars, authVars>>

\* The Editar button of an option row.
startOptionEdit(questionIndex, k) ==
  /\ questionIndex \in DOMAIN survey.questions
  /\ k \in DOMAIN survey.questions[questionIndex].options
  /\ LET option == survey.questions[questionIndex].options[k]
     IN /\ editingOption.id # option.id
        /\ DetailCommit([DetailState EXCEPT !.editingOption =
             [id |-> option.id, questionId |-> survey.questions[questionIndex].id,
              texto |-> option.texto, ativo |-> option.ativo]])
  /\ UNCHANGED <<pageVars, authVars>>

\* The checkbox of the row being edited.
setEditingOptionAtivo(checked) ==
  /\ editingOption # NoEditing
  /\ DetailCommit([DetailState EXCEPT !.editingOption.ativo = checked])
  /\ UNCHANGED <<pageVars, authVars>>

cancelOptionEdit ==
  /\ editingOption # NoEditing
  /\ DetailCommit([DetailState EXCEPT !.editingOption = NoEditing])
  /\ UNCHANGED <<pageVars, authVars>>

\* A handler that sends is followed while fewer than MaxInFlight requests are
\* unanswered and, for a create, while the backend holds fewer than MaxOptions
\* options.
Followed(next) ==
  IF next.optionCalls = optionCalls THEN TRUE
  ELSE /\ Len(optionCalls) < MaxInFlight
       /\ next.optionCalls[Len(next.optionCalls)].kind = "create" =>
            Cardinality(storedOptionIds(stored))
              + Cardinality({n \in DOMAIN optionCalls : optionCalls[n].kind = "create"})
            < MaxOptions

handleInlineAddOption(questionId) ==
  /\ survey # NoSurvey
  /\ Followed(handleInlineAddOptionEffect(DetailState, questionId))
  /\ DetailCommit(handleInlineAddOptionEffect(DetailState, questionId))
  /\ UNCHANGED <<pageVars, authVars>>

handleOptionSubmit ==
  /\ survey # NoSurvey
  /\ Followed(handleOptionSubmitEffect(DetailState))
  /\ DetailCommit(handleOptionSubmitEffect(DetailState))
  /\ UNCHANGED <<pageVars, authVars>>

\* The pill of an option row: shown when the row is not being edited,
\* disabled={savingOptionId === option.id}.
toggleOptionActive(questionIndex, k) ==
  /\ questionIndex \in DOMAIN survey.questions
  /\ k \in DOMAIN survey.questions[questionIndex].options
  /\ LET option == survey.questions[questionIndex].options[k]
         next == toggleOptionActiveEffect(DetailState, option.id,
                                          survey.questions[questionIndex].id, option.ativo)
     IN /\ editingOption.id # option.id
        /\ savingOptionId # option.id
        /\ Followed(next)
        /\ DetailCommit(next)
  /\ UNCHANGED <<pageVars, authVars>>

saveOptionEdit ==
  /\ editingOption # NoEditing
  /\ Followed(saveOptionEditEffect(DetailState))
  /\ DetailCommit(saveOptionEditEffect(DetailState))
  /\ UNCHANGED <<pageVars, authVars>>

optionResolved(n) ==
  /\ n \in DOMAIN optionCalls
  /\ DetailCommit(optionResolvedEffect(DetailState, n))
  /\ UNCHANGED <<pageVars, authVars>>

optionRejected(n, err) ==
  /\ n \in DOMAIN optionCalls
  /\ DetailCommit(optionRejectedEffect(DetailState, n, parseApiError(err)))
  /\ UNCHANGED <<pageVars, authVars>>

\* The request is answered 401 or 403: the interceptor, then the catch block
\* with the Error the interceptor rejects with.
optionUnauthorized(n) ==
  /\ n \in DOMAIN optionCalls
  /\ loginNavigations < MaxNavigations
  /\ DetailCommit(optionRejectedEffect(DetailState, n, ErrSessionExpired))
  /\ SessionCommit(unauthorizedEffect(SessionState))
  /\ UNCHANGED <<pageVars, now>>

\* ProtectedRoute is rendered.
ensureValidSession ==
  /\ loginNavigations < MaxNavigations
  /\ SessionCommit(ensureValidSessionEffect(SessionState, now))
  /\ UNCHANGED <<pageVars, detailVars, now>>

login(token) ==
  /\ storedToken = Null
  /\ SessionCommit(loginEffect(SessionState, token))
  /\ UNCHANGED <<pageVars, detailVars, now>>

logout ==
  /\ storedToken # Null
  /\ SessionCommit(logoutEffect(SessionState))
  /\ UNCHANGED <<pageVars, detailVars, now>>

\* Date.now() advances.
tick ==
  /\ now < MaxClock
  /\ now' = now + 1
  /\ UNCHANGED <<pageVars, detailVars, storedToken, authorization,
                 hasRedirectedForAuth, loginNavigations>>

DetailNext ==
  \/ loadSurvey
  \/ \E text \in NewOptionTexts : \E q \in DetailQuestionIds : setNewOptionText(q, text)
  \/ \E q \in {0} \cup DetailQuestionIds : setOptionForm([questionId |-> q])
  \/ \E text \in OptionFormTexts : setOptionForm([texto |-> text])
  \/ \E checked \in BOOLEAN : setOptionForm([ativo |-> checked])
  \/ \E k \in EditedDetailOptionIds : startOptionEdit(1, k)
  \/ \E checked \in BOOLEAN : setEditingOptionAtivo(checked)
  \/ cancelOptionEdit
  \/ \E q \in DetailQuestionIds : handleInlineAddOption(q)
  \/ handleOptionSubmit
  \/ \E k \in ToggledOptionIds : toggleOptionActive(1, k)
  \/ saveOptionEdit
  \/ \E n \in 1..MaxInFlight : optionResolved(n)
  \/ \E n \in 1..MaxInFlight : \E err \in DetailFailures : optionRejected(n, err)

DetailSpec == Init /\ [][DetailNext]_vars

\* The detail page while the session comes and goes.
SessionNext ==
  \/ loadSurvey
  \/ \E k \in ToggledOptionIds : toggleOptionActive(1, k)
  \/ \E q \in DetailQuestionIds : handleInlineAddOption(q)
  \/ \E n \in 1..MaxInFlight : optionResolved(n)
  \/ \E n \in 1..MaxInFlight : optionUnauthorized(n)
  \/ ensureValidSession
  \/ \E token \in LoginTokens : login(token)
  \/ logout
  \/ tick

SessionSpec == Init /\ [][SessionNext]_vars

(* properties of the detail page and the session *)

\* The requests a handler has sent.
SentBy(next) ==
  {next.optionCalls[n] : n \in (Len(optionCalls) + 1)..Len(next.optionCalls)}

\* The active options of the loaded question other than the one a request targets.
OtherActive(call) ==
  {<<i, k>> \in UNION {{i} \X DOMAIN survey.questions[i].options :
                         i \in findQuestion(DetailState.survey, call.payload.questionId)} :
     /\ survey.questions[i].options[k].ativo
     /\ survey.questions[i].options[k].id # call.id}

KeepsLimit(next) ==
  \A call \in SentBy(next) :
    call.payload.ativo => Cardinality(OtherActive(call)) < MAX_ACTIVE_OPTIONS

\* C29: on the detail page every option create or update sent with ativo = true
\* goes to a question whose loaded structure has fewer than 5 other active
\* options, whichever of the four handlers sends it.
C29_NoSixthActive ==
  survey # NoSurvey =>
    /\ \A q \in DetailQuestionIds : KeepsLimit(handleInlineAddOptionEffect(DetailState, q))
    /\ KeepsLimit(handleOptionSubmitEffect(DetailState))
    /\ \A i \in DOMAIN survey.questions : \A k \in DOMAIN survey.questions[i].options :
         KeepsLimit(toggleOptionActiveEffect(DetailState, survey.questions[i].options[k].id,
                                             survey.questions[i].id,
                                             survey.questions[i].options[k].ativo))
    /\ KeepsLimit(saveOptionEditEffect(DetailState))

\* C30: once authentication is lost (an answer 401 or 403, or an expired
\* session found) the token and the header are cleared, and between two
\* settings of a token window.location.assign('/login') is called at most once.
C30_RedirectOnce ==
  /\ unauthorizedEffect(SessionState).storedToken = Null
  /\ unauthorizedEffect(SessionState).authorization = NoHeader
  /\ isTokenExpired(storedToken, now) =>
       /\ ensureValidSessionEffect(SessionState, now).storedToken = Null
       /\ ensureValidSessionEffect(SessionState, now).authorization = NoHeader
  /\ loginNavigations <= 1
====
